---- MODULE Spec2Model ----
(***************************************************************************)
(* Model of pyinaturalist's observation search client:                     *)
(*   node_api.get_all_observations  (id_above keyset pagination loop)      *)
(*   node_api.get_observations      (one page request, r.json())           *)
(*   node_api.get_observation and v1.observations.get_observation          *)
(* together with the iNaturalist server they talk to (a set of observation *)
(* ids that may grow while a pagination is running).                       *)
(***************************************************************************)
EXTENDS Integers, Sequences, FiniteSets, TLC

\* ------------------------------------------------------------ bounds
\* Observation ids on the server are drawn from 1..MaxId.
MaxId == 4
\* PER_PAGE_RESULTS is a library constant; the model checks every page size
\* in 1..MaxPerPage.
MaxPerPage == 3
\* A server that keeps reporting more results makes the loop run forever;
\* the model stops a pagination after this many page requests (a consistent
\* server is drained in at most MaxId requests).
MaxFetches == MaxId
\* The server gains at most this many observations during one pagination.
MaxInserts == 2

\* ------------------------------------------------------------ values
\* An item of a result list is modelled by its "id"; NoId is an item whose
\* dict carries no "id" key.
NoId == 0
Ids == 1..MaxId
NoError == "none"
NoParam == -1

VARIABLES
    op,             \* the library function the caller invoked
    observation_id, \* get_observation's argument (NoParam for get_all_observations)
    per_page,       \* PER_PAGE_RESULTS
    db,             \* server: ids of the observations matching the caller's filters
    pc,             \* "fetch" | "throttle" | "done" | "failed"
    results,        \* get_all_observations: the local list `results`
    id_above,       \* get_all_observations: the local cursor `id_above`
    sent,           \* history: the request parameters of every request sent
    responses,      \* history: every HTTP response received
    trace,          \* history: "fetch" and "sleep" events in program order
    error,          \* the exception that reached the caller, or NoError
    returned,       \* the value returned to the caller (a list), once pc = "done"
    consumed,       \* how many items of the returned list the caller has read
    honest,         \* history: every response so far was a consistent success page
    inserted,       \* history: ids the server gained while the pagination ran
    late,           \* history: ids inserted at or below an id already received
    args,           \* the caller's arguments of the call
    other           \* a second get_all_observations call running beside the first

vars == <<op, observation_id, per_page, db, pc, results, id_above, sent,
          responses, trace, error, returned, consumed, honest, inserted, late,
          args, other>>

\* ------------------------------------------------------------ helpers
Min(S) == CHOOSE x \in S : \A y \in S : x <= y
Max(S) == CHOOSE x \in S : \A y \in S : x >= y

RECURSIVE SortedSeq(_)
SortedSeq(S) == IF S = {} THEN <<>>
                ELSE LET m == Min(S) IN <<m>> \o SortedSeq(S \ {m})

Take(s, n) == SubSeq(s, 1, IF n < Len(s) THEN n ELSE Len(s))
Last(s) == s[Len(s)]
Range(s) == {s[i] : i \in 1..Len(s)}
CeilDiv(a, b) == (a + b - 1) \div b
NoDup(s) == \A i, j \in 1..Len(s) : i # j => s[i] # s[j]
Count(s, e) == Cardinality({i \in 1..Len(s) : s[i] = e})

\* ------------------------------------------------------------ server
\* GET /observations with order_by=id, order=asc: the observations with an id
\* above the cursor, ascending, at most per_page of them; total_results counts
\* every observation matching the query, the id_above filter included.
Matching(d, req) == {x \in d : x > req.id_above}
ServerPage(d, req) == Take(SortedSeq(Matching(d, req)), req.per_page)
ServerTotal(d, req) == Cardinality(Matching(d, req))

\* A response as node_api.get_observations sees it: the HTTP status (never
\* read by the code), whether the body parses as JSON, and the two keys of the
\* body that get_all_observations reads.
Response(st, js, hr, rs, ht, tot) ==
    [status |-> st, json |-> js, has_results |-> hr, results |-> rs,
     has_total |-> ht, total_results |-> tot]

HonestResponse(d, req) ==
    Response("ok", TRUE, TRUE, ServerPage(d, req), TRUE, ServerTotal(d, req))

\* The page of HonestResponse with the "id" key of its last item missing.
StripLastId(page) ==
    IF page = <<>> THEN page ELSE [page EXCEPT ![Len(page)] = NoId]

\* What the server may answer to one page request.  Under a success status:
\* the consistent page; the page with another total_results; the page with an
\* id-less last item; a body without result list; a body without
\* total_results; a body that is no JSON.  Under a non-success status (which
\* get_observations never reads): an error body without total_results, a body
\* that is no JSON, or a body that still has the shape of a page.
PageResponses(d, req) ==
    LET page == ServerPage(d, req)
        tot  == ServerTotal(d, req)
    IN  {HonestResponse(d, req)}
        \cup {Response("ok", TRUE, TRUE, rs, TRUE, t) :
                rs \in {page, StripLastId(page)},
                t \in {tot, 0, req.per_page + 1}}
        \cup {Response("ok", TRUE, FALSE, <<>>, TRUE, t) :
                t \in {0, req.per_page + 1}}
        \cup {Response("ok", TRUE, TRUE, page, FALSE, 0),
              Response("ok", FALSE, FALSE, <<>>, FALSE, 0),
              Response("error", TRUE, FALSE, <<>>, FALSE, 0),
              Response("error", FALSE, FALSE, <<>>, FALSE, 0),
              Response("error", TRUE, TRUE, page, TRUE, tot)}

\* ------------------------------------------------------------ client
\* Keyword arguments are a dict over the request parameters the model knows:
\* `has` holds the keys that are present, `val` their values (the default of
\* a key that is absent).  taxon_id stands for the caller's search filters.
Absent == "absent"
ParamKeys == {"page", "per_page", "order_by", "order", "id_above", "taxon_id"}
Defaults == [page |-> NoParam, per_page |-> NoParam, order_by |-> Absent,
             order |-> Absent, id_above |-> NoParam, taxon_id |-> NoParam]
NoKwargs == [has |-> {}, val |-> Defaults]
\* {**a, **b} and a.update(b)
DictUpdate(a, b) ==
    [has |-> a.has \cup b.has,
     val |-> [k \in ParamKeys |-> IF k \in b.has THEN b.val[k] ELSE a.val[k]]]
\* del a[key]
DictDel(a, key) ==
    [has |-> a.has \ {key}, val |-> [a.val EXCEPT ![key] = Defaults[key]]]
\* a[key] = v
DictSet(a, key, v) ==
    [has |-> a.has \cup {key}, val |-> [a.val EXCEPT ![key] = v]]

\* get_observations, line 82: the query parameters and the user agent of one
\* request.
Request(d, ua) ==
    [has |-> d.has, page |-> d.val.page, per_page |-> d.val.per_page,
     order_by |-> d.val.order_by, order |-> d.val.order,
     id_above |-> d.val.id_above, taxon_id |-> d.val.taxon_id,
     user_agent |-> ua]

\* get_all_observations, lines 112-119: the fixed pagination parameters.
FixedParams ==
    [has |-> {"order_by", "order", "per_page"},
     val |-> [Defaults EXCEPT !.order_by = "id", !.order = "asc",
                              !.per_page = per_page]]

\* get_all_observations, lines 103-108: `params` is merged into kwargs when it
\* is not empty, then `page` is removed.
CallerParams ==
    LET merged == IF args.params.has # {}
                  THEN DictUpdate(args.kwargs, args.params)
                  ELSE args.kwargs
    IN  IF "page" \in merged.has THEN DictDel(merged, "page") ELSE merged

\* get_all_observations, lines 112-123: the parameters of every page request.
PaginationParamsCallerWins(cur) ==
    Request(DictSet(DictUpdate(FixedParams, CallerParams), "id_above", cur),
            args.user_agent)
PaginationParamsFilterOnce(cur) ==
    Request(DictSet(DictUpdate(IF cur = 0 THEN CallerParams ELSE NoKwargs,
                               FixedParams), "id_above", cur),
            args.user_agent)
PaginationParams(cur) ==
    Request(DictSet(DictUpdate(CallerParams, FixedParams), "id_above", cur),
            args.user_agent)

\* line 125: page_obs.get("results", [])
PageOf(r) == IF r.has_results THEN r.results ELSE <<>>

\* line 125: results = results + page
AccumulateOverwrite(res, page) == page
Accumulate(res, page) == res \o page

\* line 127: page_obs["total_results"] <= PER_PAGE_RESULTS
IsLastPageStrict(total) == total < per_page
IsLastPage(total) == total <= per_page

\* line 124: the page request, as an event of the program's run
RecordSleepThenFetch(tr) == Append(Append(tr, "sleep"), "fetch")
RecordFetch(tr) == Append(tr, "fetch")

\* line 131: id_above = results[-1]["id"]; an empty list raises IndexError, an
\* item without "id" raises KeyError.
CursorOfFirst(res, cur) ==
    IF res = <<>> THEN [error |-> "IndexError", id_above |-> cur]
    ELSE IF res[1] = NoId THEN [error |-> "KeyError", id_above |-> cur]
    ELSE [error |-> NoError, id_above |-> res[1]]
CursorOfStale(res, cur) ==
    IF res = <<>> THEN [error |-> "IndexError", id_above |-> cur]
    ELSE IF Last(res) = NoId THEN [error |-> "KeyError", id_above |-> cur]
    ELSE [error |-> NoError, id_above |-> cur]
CursorOfDefault(res, cur) ==
    IF res = <<>> THEN [error |-> "IndexError", id_above |-> cur]
    ELSE [error |-> NoError, id_above |-> Last(res)]
CursorOf(res, cur) ==
    IF res = <<>> THEN [error |-> "IndexError", id_above |-> cur]
    ELSE IF Last(res) = NoId THEN [error |-> "KeyError", id_above |-> cur]
    ELSE [error |-> NoError, id_above |-> Last(res)]

\* line 128: `return results` is the only place where the caller gets items.
CanYieldLazy == pc \in {"throttle", "fetch", "done"} /\ consumed < Len(results)
CanYield == pc = "done" /\ consumed < Len(returned)

\* ids the pagination has received so far
SeenIds == Range(results) \ {NoId}

\* One iteration of the loop up to the return test (lines 123-128), the
\* request going through get_observations (lines 82-83): the request is sent;
\* a transport failure propagates; r.json() raises ValueError on a body that
\* is no JSON; the page is appended; a missing total_results raises KeyError;
\* the list is returned when total_results <= PER_PAGE_RESULTS.
FetchPage ==
    /\ op = "get_all_observations"
    /\ pc = "fetch"
    /\ Len(sent) < MaxFetches
    /\ LET req == PaginationParams(id_above) IN
       /\ sent' = Append(sent, req)
       /\ trace' = RecordFetch(trace)
       /\ \/ /\ pc' = "failed"
             /\ error' = "ConnectionError"
             /\ honest' = FALSE
             /\ UNCHANGED <<responses, results, returned>>
          \/ \E r \in PageResponses(db, req) :
             /\ responses' = Append(responses, r)
             /\ honest' = (honest /\ r = HonestResponse(db, req))
             /\ IF ~r.json
                THEN /\ pc' = "failed"
                     /\ error' = "ValueError"
                     /\ UNCHANGED <<results, returned>>
                ELSE /\ results' = Accumulate(results, PageOf(r))
                     /\ IF ~r.has_total
                        THEN /\ pc' = "failed"
                             /\ error' = "KeyError"
                             /\ UNCHANGED returned
                        ELSE IF IsLastPage(r.total_results)
                        THEN /\ pc' = "done"
                             /\ returned' = results'
                             /\ UNCHANGED error
                        ELSE /\ pc' = "throttle"
                             /\ UNCHANGED <<error, returned>>
    /\ UNCHANGED <<op, observation_id, per_page, db, id_above, consumed, inserted,
                   late, args, other>>

\* The rest of the iteration (lines 130-131): sleep(THROTTLING_DELAY), then
\* the next cursor is read from the last accumulated item.
Throttle ==
    /\ op = "get_all_observations"
    /\ pc = "throttle"
    /\ trace' = Append(trace, "sleep")
    /\ LET c == CursorOf(results, id_above) IN
       IF c.error # NoError
       THEN /\ pc' = "failed"
            /\ error' = c.error
            /\ UNCHANGED id_above
       ELSE /\ pc' = "fetch"
            /\ id_above' = c.id_above
            /\ UNCHANGED error
    /\ UNCHANGED <<op, observation_id, per_page, db, results, sent, responses,
                   returned, consumed, honest, inserted, late, args, other>>

\* The server gains an observation between two page requests of a running
\* pagination.
Insert ==
    /\ op = "get_all_observations"
    /\ pc \in {"fetch", "throttle"}
    /\ Len(sent) >= 1
    /\ Cardinality(inserted) < MaxInserts
    /\ \E x \in Ids \ db :
       /\ db' = db \cup {x}
       /\ inserted' = inserted \cup {x}
       /\ late' = IF \E y \in SeenIds : x <= y THEN late \cup {x} ELSE late
    /\ UNCHANGED <<op, observation_id, per_page, pc, results, id_above, sent,
                   responses, trace, error, returned, consumed, honest, args, other>>

\* The caller reads the next item of the list it was given.
Consume ==
    /\ op = "get_all_observations"
    /\ CanYield
    /\ consumed' = consumed + 1
    /\ UNCHANGED <<op, observation_id, per_page, db, pc, results, id_above, sent,
                   responses, trace, error, returned, honest, inserted, late,
                   args, other>>

\* ------------------------------------------------------------ get_observation
\* node_api.get_observation lines 68-71 and v1.observations.get_observation
\* lines 54-56: the first result, or ObservationNotFound for an empty list.
FirstOrNone(rs) ==
    IF rs # <<>> THEN [error |-> NoError, value |-> <<rs[1]>>]
    ELSE [error |-> NoError, value |-> <<>>]
FirstOrNotFound(rs) ==
    IF rs # <<>> THEN [error |-> NoError, value |-> <<rs[1]>>]
    ELSE [error |-> "ObservationNotFound", value |-> <<>>]

\* GET /observations?id=<observation_id>: the observation with that id, if any.
LookupResponses(d, req) ==
    LET rs == IF req.id \in d THEN <<req.id>> ELSE <<>>
    IN  {Response("ok", TRUE, TRUE, rs, TRUE, Len(rs)),
         Response("ok", TRUE, FALSE, <<>>, FALSE, 0),
         Response("ok", FALSE, FALSE, <<>>, FALSE, 0)}

\* get_observation: one get_observations(id=observation_id) call; r["results"]
\* raises KeyError when the body has no result list.
GetObservation ==
    /\ op \in {"get_observation", "v1_get_observation"}
    /\ pc = "fetch"
    /\ LET req == [id |-> observation_id] IN
       /\ sent' = Append(sent, req)
       /\ trace' = RecordFetch(trace)
       /\ \/ /\ pc' = "failed"
             /\ error' = "ConnectionError"
             /\ UNCHANGED <<responses, returned>>
          \/ \E r \in LookupResponses(db, req) :
             /\ responses' = Append(responses, r)
             /\ IF ~r.json
                THEN /\ pc' = "failed" /\ error' = "ValueError"
                     /\ UNCHANGED returned
                ELSE IF ~r.has_results
                THEN /\ pc' = "failed" /\ error' = "KeyError"
                     /\ UNCHANGED returned
                ELSE LET out == FirstOrNotFound(r.results) IN
                     /\ error' = out.error
                     /\ returned' = out.value
                     /\ pc' = IF out.error = NoError THEN "done" ELSE "failed"
    /\ UNCHANGED <<op, observation_id, per_page, db, results, id_above,
                   consumed, honest, inserted, late, args, other>>

\* ------------------------------------------------------------ specification
\* get_all_observations called without arguments.
NoArgs == [kwargs |-> NoKwargs, params |-> NoKwargs, user_agent |-> "None"]
\* No second call.
NoOther == [pc |-> "idle", results |-> <<>>, id_above |-> 0, sent |-> <<>>,
            pages |-> <<>>, returned |-> <<>>]

Ops == {"get_all_observations", "get_observation", "v1_get_observation"}

Init ==
    /\ op \in Ops
    /\ observation_id \in (IF op = "get_all_observations" THEN {NoParam} ELSE Ids)
    /\ per_page \in 1..MaxPerPage
    /\ db \in SUBSET Ids
    /\ pc = "fetch"
    /\ results = <<>>
    /\ id_above = 0
    /\ sent = <<>>
    /\ responses = <<>>
    /\ trace = <<>>
    /\ error = NoError
    /\ returned = <<>>
    /\ consumed = 0
    /\ honest = TRUE
    /\ inserted = {}
    /\ late = {}
    /\ args = NoArgs
    /\ other = NoOther

Next == FetchPage \/ Throttle \/ Insert \/ Consume \/ GetObservation

Spec == Init /\ [][Next]_vars

\* ------------------------------------------------------------ claims
Paginating == op = "get_all_observations"
\* the server answered consistently and its result set did not change
Static == honest /\ inserted = {}
MaxOf(a, b) == IF a >= b THEN a ELSE b
\* the items received before request i was sent
RECURSIVE ReceivedBefore(_)
ReceivedBefore(i) ==
    IF i <= 1 THEN <<>> ELSE ReceivedBefore(i - 1) \o PageOf(responses[i - 1])
IsPage(r) == r.json /\ r.has_total

\* C1 (as stated): a full pagination of a consistent, unchanging server with N
\* items returns the N items once each in ascending id order after exactly
\* ceil(N / per_page) page requests.
C1_ExactlyCeilFetches ==
    (Paginating /\ pc = "done" /\ Static) =>
        /\ returned = SortedSeq(db)
        /\ Len(sent) = CeilDiv(Cardinality(db), per_page)

\* C1 (amended): a full pagination of a consistent, unchanging server with N
\* items returns the N items once each in ascending id order after exactly
\* max(1, ceil(N / per_page)) page requests: an empty result set still costs
\* one request.
C1_FullDrain ==
    (Paginating /\ pc = "done" /\ Static) =>
        /\ returned = SortedSeq(db)
        /\ Len(sent) = MaxOf(1, CeilDiv(Cardinality(db), per_page))

\* C1 witness: four items drained with page size 3 in two requests, the last
\* page partial.
C1_Witness ==
    /\ Paginating /\ pc = "done" /\ Static
    /\ Cardinality(db) = 4 /\ per_page = 3 /\ Len(sent) = 2
    /\ returned = <<1, 2, 3, 4>>

\* C2: when the first page reports total_results <= per_page the call
\* returns that page's items after exactly one request.
C2_SinglePage ==
    (Paginating /\ Len(responses) >= 1 /\ IsPage(responses[1])
       /\ responses[1].total_results <= per_page) =>
        /\ pc = "done"
        /\ error = NoError
        /\ Len(sent) = 1
        /\ returned = PageOf(responses[1])

\* C2 witness: a first page that reports exactly per_page results.
C2_Witness ==
    /\ Paginating /\ pc = "done" /\ Len(sent) = 1
    /\ responses[1].total_results = per_page
    /\ Len(returned) = per_page

\* C3 (as stated): a page without items ends the pagination normally: no
\* error is raised and no further page is requested, whatever total_results
\* says.
C3_EmptyPageEnds ==
    Paginating =>
        \A i \in 1..Len(responses) :
            (IsPage(responses[i]) /\ PageOf(responses[i]) = <<>>) =>
                /\ pc # "failed"
                /\ Len(sent) = i

\* C4: the first request carries id_above = 0, every later request carries
\* the id of the last item received so far, and of two consecutive pages every
\* id of the second is above the greatest id of the first.
C4_Keyset ==
    Paginating =>
        /\ \A i \in 1..Len(sent) :
              sent[i].id_above =
                  IF i = 1 THEN 0 ELSE Last(ReceivedBefore(i))
        /\ \A i \in 1..(Len(responses) - 1) :
              LET P1 == PageOf(responses[i])
                  P2 == PageOf(responses[i + 1])
              IN  P1 # <<>> =>
                     \A x \in Range(P2) \ {NoId} : x > Max(Range(P1))

\* C4 witness: three requests, the second and third page both with items.
C4_Witness ==
    /\ Paginating /\ Len(responses) >= 3
    /\ PageOf(responses[2]) # <<>> /\ PageOf(responses[3]) # <<>>
    /\ sent[3].id_above = Last(PageOf(responses[2]))

\* C5: against a consistent server that gains observations while the
\* pagination runs, no item is received twice, an item is missing only if it
\* was inserted at or below an id already received, and such an item is never
\* received.
C5_NoDupNoSkip ==
    (Paginating /\ honest) =>
        /\ NoDup(results)
        /\ \A x \in db :
              (x \notin Range(results) /\ \E y \in SeenIds : x <= y) => x \in late
        /\ pc = "done" => \A x \in db : x \in Range(returned) \/ x \in late
        /\ late \cap Range(results) = {}

\* C5 witness: a finished pagination during which one observation was
\* inserted below the cursor (missed) and one above it (received).
C5_Witness ==
    /\ Paginating /\ honest /\ pc = "done"
    /\ late # {}
    /\ \E x \in inserted : x \in Range(returned)

\* C6: the run of one pagination alternates page requests and delays and
\* starts with a request, so there is exactly one delay between two
\* consecutive requests and none before the first; a pagination that returns
\* normally ends with a request (n requests, n - 1 delays).
C6_DelayBetweenFetches ==
    Paginating =>
        /\ \A i \in 1..Len(trace) :
              trace[i] = (IF i % 2 = 1 THEN "fetch" ELSE "sleep")
        /\ Count(trace, "fetch") = Len(sent)
        /\ pc = "done" => Count(trace, "sleep") = Len(sent) - 1

\* C6 witness: a finished pagination of three requests and two delays.
C6_Witness ==
    /\ Paginating /\ pc = "done"
    /\ trace = <<"fetch", "sleep", "fetch", "sleep", "fetch">>

\* C7 (as stated): a response with a non-success status makes the pagination
\* fail: the error reaches the caller and no later page is requested.
C7_ErrorStatusFails ==
    Paginating =>
        \A i \in 1..Len(responses) :
            responses[i].status = "error" =>
                /\ pc = "failed"
                /\ Len(sent) = i

C10_NotFound ==
    /\ (op \in {"get_observation", "v1_get_observation"} /\ pc # "fetch") =>
          /\ Len(sent) = 1
          /\ sent[1].id = observation_id
          /\ (Len(responses) = 1 /\ responses[1].json /\ responses[1].has_results) =>
                /\ (error = "ObservationNotFound") <=> (responses[1].results = <<>>)
                /\ responses[1].results # <<>> =>
                      (pc = "done" /\ returned = <<responses[1].results[1]>>)
          /\ error = "ObservationNotFound" =>
                (Len(responses) = 1 /\ responses[1].json /\ responses[1].has_results)
    /\ Paginating => error # "ObservationNotFound"

\* C10 witness: a lookup of an id the server does not have.
C10_Witness ==
    /\ op = "get_observation" /\ observation_id \notin db
    /\ pc = "failed" /\ error = "ObservationNotFound"
    /\ responses[1].results = <<>>

\* ------------------------------------------------------------ caller arguments
\* The keyword arguments a caller may pass to get_all_observations: none, a
\* search filter, an explicit page, or every pagination parameter at once.
KwargsChoices ==
    {NoKwargs,
     DictSet(NoKwargs, "taxon_id", 7),
     DictSet(DictSet(NoKwargs, "page", 2), "taxon_id", 7),
     [has |-> ParamKeys,
      val |-> [page |-> 2, per_page |-> 1, order_by |-> "created_at",
               order |-> "desc", id_above |-> 2, taxon_id |-> 7]]}
\* The deprecated positional `params` dict: empty, or with keys of its own.
ParamsChoices ==
    {NoKwargs,
     DictSet(DictSet(DictSet(NoKwargs, "page", 3), "order", "desc"), "taxon_id", 8)}
CallerArgs ==
    [kwargs : KwargsChoices, params : ParamsChoices,
     user_agent : {"None", "my-app/1.0"}]

InitParams ==
    /\ op = "get_all_observations"
    /\ observation_id = NoParam
    /\ per_page \in 1..MaxPerPage
    /\ db \in SUBSET Ids
    /\ pc = "fetch"
    /\ results = <<>>
    /\ id_above = 0
    /\ sent = <<>>
    /\ responses = <<>>
    /\ trace = <<>>
    /\ error = NoError
    /\ returned = <<>>
    /\ consumed = 0
    /\ honest = TRUE
    /\ inserted = {}
    /\ late = {}
    /\ args \in CallerArgs
    /\ other = NoOther

NextParams == FetchPage \/ Throttle

SpecParams == InitParams /\ [][NextParams]_vars

\* C11: whatever the caller passes for page, per_page, order_by, order and
\* id_above, every request of the pagination carries no page parameter,
\* per_page = PER_PAGE_RESULTS, order_by = id, order = asc and id_above = the
\* pagination's own cursor (0 for the first request).
C11_PaginationParamsIgnored ==
    Paginating =>
        \A i \in 1..Len(sent) :
            /\ "page" \notin sent[i].has
            /\ sent[i].page = NoParam
            /\ {"per_page", "order_by", "order", "id_above"} \subseteq sent[i].has
            /\ sent[i].per_page = per_page
            /\ sent[i].order_by = "id"
            /\ sent[i].order = "asc"
            /\ sent[i].id_above = IF i = 1 THEN 0 ELSE Last(ReceivedBefore(i))

\* C11 witness: the caller passed every pagination parameter, and a page in
\* `params` too, and the pagination has sent a second request.
C11_Witness ==
    /\ args.kwargs.has = ParamKeys
    /\ "page" \in args.params.has
    /\ args.kwargs.val.per_page # per_page
    /\ Len(sent) >= 2
    /\ sent[2].id_above # args.kwargs.val.id_above

\* the search filter the caller asked for: `params` overrides kwargs
CallerFilter ==
    IF "taxon_id" \in args.params.has THEN args.params.val.taxon_id
    ELSE args.kwargs.val.taxon_id

\* C17: all requests of one call carry the same parameters except id_above:
\* the caller's filter and user agent are in every request, unchanged.
C17_OnlyCursorChanges ==
    Paginating =>
        /\ \A i, j \in 1..Len(sent) :
              [sent[i] EXCEPT !.id_above = 0] = [sent[j] EXCEPT !.id_above = 0]
        /\ \A i \in 1..Len(sent) :
              /\ sent[i].taxon_id = CallerFilter
              /\ ("taxon_id" \in sent[i].has) <=>
                    ("taxon_id" \in args.kwargs.has \cup args.params.has)
              /\ sent[i].user_agent = args.user_agent

\* C17 witness: three requests with a filter and a user agent, the cursor
\* differing between them.
C17_Witness ==
    /\ Len(sent) >= 3
    /\ sent[3].taxon_id = 7 /\ sent[3].user_agent = "my-app/1.0"
    /\ sent[1].id_above < sent[2].id_above /\ sent[2].id_above < sent[3].id_above

\* ------------------------------------------------------------ two calls
\* A second get_all_observations call whose page requests interleave with
\* those of the first.  Its locals live in `other`: results and id_above
\* (lines 110-111), its position, the requests it sent, the pages it got, and
\* `at`, the number of requests the first call had sent at each of them.
\* The server answers both calls consistently (what it may answer otherwise
\* is explored for one call under Spec).
OtherStart == [pc |-> "fetch", results |-> <<>>, id_above |-> 0, sent |-> <<>>,
               pages |-> <<>>, returned |-> <<>>, at |-> <<>>]

\* line 111 and 123: the cursor is a local of the call.
SharedCursor == id_above
OwnCursor == other.id_above

\* lines 123-128 for the second call
FetchPage2 ==
    /\ op = "get_all_observations"
    /\ other.pc = "fetch"
    /\ Len(other.sent) < MaxFetches
    /\ LET req  == PaginationParams(OwnCursor)
           r    == HonestResponse(db, req)
           res  == Accumulate(other.results, PageOf(r))
           last == IsLastPage(r.total_results)
       IN  other' = [other EXCEPT
                        !.sent = Append(@, req),
                        !.pages = Append(@, PageOf(r)),
                        !.at = Append(@, Len(sent)),
                        !.results = res,
                        !.pc = IF last THEN "done" ELSE "throttle",
                        !.returned = IF last THEN res ELSE @]
    /\ UNCHANGED <<op, observation_id, per_page, db, pc, results, id_above, sent,
                   responses, trace, error, returned, consumed, honest, inserted,
                   late, args>>

\* lines 130-131 for the second call
Throttle2 ==
    /\ op = "get_all_observations"
    /\ other.pc = "throttle"
    /\ LET c == CursorOf(other.results, other.id_above) IN
       other' = [other EXCEPT
                    !.pc = IF c.error # NoError THEN "failed" ELSE "fetch",
                    !.id_above = c.id_above]
    /\ UNCHANGED <<op, observation_id, per_page, db, pc, results, id_above, sent,
                   responses, trace, error, returned, consumed, honest, inserted,
                   late, args>>

InitTwo ==
    /\ op = "get_all_observations"
    /\ observation_id = NoParam
    /\ per_page \in 1..MaxPerPage
    /\ db \in SUBSET Ids
    /\ pc = "fetch"
    /\ results = <<>>
    /\ id_above = 0
    /\ sent = <<>>
    /\ responses = <<>>
    /\ trace = <<>>
    /\ error = NoError
    /\ returned = <<>>
    /\ consumed = 0
    /\ honest = TRUE
    /\ inserted = {}
    /\ late = {}
    /\ args = NoArgs
    /\ other = OtherStart

\* The first call's request step, the server answering consistently.
FetchPage1 == FetchPage /\ honest'

NextTwo == FetchPage1 \/ Throttle \/ FetchPage2 \/ Throttle2

SpecTwo == InitTwo /\ [][NextTwo]_vars

\* the items the second call received before its request i
RECURSIVE OtherReceivedBefore(_)
OtherReceivedBefore(i) ==
    IF i <= 1 THEN <<>> ELSE OtherReceivedBefore(i - 1) \o other.pages[i - 1]

\* C18: with the page requests of two calls interleaved in any order, the
\* cursor each call sends and the list it accumulates come from the pages that
\* call itself received, and each call returns the list it returns when run
\* alone (all items of the server, ascending).
C18_CallsIndependent ==
    /\ \A i \in 1..Len(sent) :
          sent[i].id_above = IF i = 1 THEN 0 ELSE Last(ReceivedBefore(i))
    /\ \A i \in 1..Len(other.sent) :
          other.sent[i].id_above =
              IF i = 1 THEN 0 ELSE Last(OtherReceivedBefore(i))
    /\ results = ReceivedBefore(Len(responses) + 1)
    /\ other.results = OtherReceivedBefore(Len(other.pages) + 1)
    /\ pc = "done" => returned = SortedSeq(db)
    /\ other.pc = "done" => other.returned = SortedSeq(db)

\* C18 witness: both calls done after three requests each, sent alternately.
C18_Witness ==
    /\ pc = "done" /\ other.pc = "done"
    /\ Len(sent) = 3 /\ other.at = <<1, 2, 3>>
    /\ Len(trace) = 5
    /\ returned = other.returned /\ Len(returned) >= 3

\* ------------------------------------------------------------ single calls
\* The functions that are one straight run of requests: delete_observation
\* and upload of v1/observations.py, get_places_by_id and get_taxa_by_id of
\* node_api.py.  `args` holds the call's arguments, `sent` the requests,
\* `responses` what came back, `error` the exception that reached the
\* caller and `returned` the return value.

\* Status codes of a response: two success codes, the two codes the
\* docstring of delete_observation names, and a server error.
StatusCodes == {200, 204, 403, 404, 500}

\* requests.Response.raise_for_status, called at v1/observations.py 454 and
\* 486 and node_api.py 248 and 350: HTTPError for 4xx and 5xx.
raise_for_status(st) ==
    IF 400 <= st /\ st < 600 THEN "HTTPError" ELSE NoError

\* v1/observations.py 484-486: the 404 test comes before raise_for_status.
DeleteOutcomeStatusFirst(st) ==
    IF raise_for_status(st) # NoError THEN raise_for_status(st)
    ELSE IF st = 404 THEN "ObservationNotFound"
    ELSE NoError
DeleteOutcome(st) ==
    IF st = 404 THEN "ObservationNotFound"
    ELSE raise_for_status(st)

\* What a single call leaves alone.
CallFrame ==
    UNCHANGED <<op, observation_id, per_page, db, results, id_above, trace,
                consumed, honest, inserted, late, args, other>>

\* v1/observations.py 478-486
delete_observation ==
    /\ op = "delete_observation"
    /\ pc = "fetch"
    /\ sent' = Append(sent, [method |-> "DELETE", endpoint |-> "observations",
                             id |-> observation_id, raise_for_status |-> FALSE])
    /\ \/ /\ pc' = "failed"
          /\ error' = "ConnectionError"
          /\ UNCHANGED <<responses, returned>>
       \/ \E st \in StatusCodes :
          /\ responses' = Append(responses, [status_code |-> st])
          /\ error' = DeleteOutcome(st)
          /\ pc' = IF DeleteOutcome(st) = NoError THEN "done" ELSE "failed"
          /\ UNCHANGED returned
    /\ CallFrame

\* C12: delete_observation sends one delete request; 404 gives
\* ObservationNotFound, any other 4xx or 5xx status an HTTPError, and a
\* success status returns nothing and raises nothing.
C12_DeleteOutcome ==
    op = "delete_observation" =>
        /\ Len(sent) <= 1
        /\ pc # "fetch" => Len(sent) = 1 /\ sent[1].method = "DELETE"
                           /\ sent[1].id = observation_id
        /\ responses # <<>> =>
              LET st == responses[1].status_code IN
              /\ st = 404 => pc = "failed" /\ error = "ObservationNotFound"
              /\ (st >= 400 /\ st # 404) => pc = "failed" /\ error = "HTTPError"
              /\ st < 300 => pc = "done" /\ error = NoError /\ returned = <<>>

\* C12 witness: the observation belongs to another user (403).
C12_Witness ==
    /\ op = "delete_observation"
    /\ Len(sent) = 1 /\ Len(responses) = 1
    /\ responses[1].status_code = 403
    /\ error = "HTTPError"

\* Most files of one kind in an upload call.
MaxFiles == 2

\* ensure_list(photos), ensure_list(sounds): n files of a kind, in order.
FileList(kind, n) == [i \in 1..n |-> [kind |-> kind, n |-> i]]

\* v1/observations.py 433-450: the photo loop, then the sound loop.
UploadQueue == args.photos \o args.sounds

\* v1/observations.py 434 and 444
UploadEndpoint(f) ==
    IF f.kind = "photo" THEN "observation_photos" ELSE "observation_sounds"

\* v1/observations.py 429: params['raise_for_status'] = False
RaiseInLoopDefault == TRUE
RaiseInLoop == FALSE

\* post_v1 with its raise_for_status parameter
PostOutcome(flag, st) == IF flag THEN raise_for_status(st) ELSE NoError

\* v1/observations.py 433-450: one pass of either loop
UploadFile ==
    /\ op = "upload"
    /\ pc = "fetch"
    /\ Len(sent) < Len(UploadQueue)
    /\ LET f == UploadQueue[Len(sent) + 1] IN
       /\ sent' = Append(sent, [method |-> "POST", endpoint |-> UploadEndpoint(f),
                                file |-> f, id |-> observation_id,
                                raise_for_status |-> RaiseInLoop])
       /\ \/ /\ pc' = "failed"
             /\ error' = "ConnectionError"
             /\ UNCHANGED responses
          \/ \E st \in StatusCodes :
             /\ responses' = Append(responses, [status_code |-> st, json |-> f])
             /\ error' = PostOutcome(RaiseInLoop, st)
             /\ pc' = IF PostOutcome(RaiseInLoop, st) = NoError
                      THEN "fetch" ELSE "failed"
    /\ UNCHANGED returned
    /\ CallFrame

\* v1/observations.py 453-455: raise for the first failed upload, else
\* return the bodies
UploadFinish ==
    /\ op = "upload"
    /\ pc = "fetch"
    /\ Len(sent) = Len(UploadQueue)
    /\ IF \E i \in 1..Len(responses) :
             raise_for_status(responses[i].status_code) # NoError
       THEN /\ pc' = "failed"
            /\ error' = "HTTPError"
            /\ UNCHANGED returned
       ELSE /\ pc' = "done"
            /\ returned' = [i \in 1..Len(responses) |-> responses[i].json]
            /\ UNCHANGED error
    /\ UNCHANGED <<sent, responses>>
    /\ CallFrame

\* C16: upload sends one request per photo, then one per sound, in the given
\* order; a non-success status leaves the call sending the remaining files;
\* HTTPError is raised only when every upload has a response; without a
\* failed upload the bodies are returned in upload order.
C16_UploadAllThenRaise ==
    op = "upload" =>
        LET files == args.photos \o args.sounds IN
        /\ Len(sent) <= Len(files)
        /\ \A i \in 1..Len(sent) :
              /\ sent[i].file = files[i]
              /\ sent[i].endpoint = IF i <= Len(args.photos)
                                    THEN "observation_photos"
                                    ELSE "observation_sounds"
        /\ (Len(responses) = Len(sent) /\ Len(sent) < Len(files)) => pc = "fetch"
        /\ error = "HTTPError" =>
              /\ Len(responses) = Len(files)
              /\ \E i \in 1..Len(responses) : responses[i].status_code >= 400
        /\ pc = "done" =>
              /\ Len(responses) = Len(files)
              /\ \A i \in 1..Len(responses) : responses[i].status_code < 400
              /\ returned = [i \in 1..Len(files) |-> responses[i].json]
              /\ \A i \in 1..Len(files) : returned[i] = files[i]

\* C16 witness: the first of three uploads fails, the other two are still
\* sent, and the error is raised after the third.
C16_Witness ==
    /\ op = "upload"
    /\ Len(args.photos) = 2 /\ Len(args.sounds) = 1
    /\ Len(responses) = 3
    /\ responses[1].status_code = 500
    /\ responses[2].status_code = 200 /\ responses[3].status_code = 200
    /\ pc = "failed" /\ error = "HTTPError"

\* Longest list passed as an ID argument.
MaxIdList == 2

\* An argument value by its Python type; `items` are the elements of a list.
Scalar(t) == [type |-> t, items |-> <<>>]
Scalars == {Scalar("int"), Scalar("str"), Scalar("none")}
ListOf(xs) == [type |-> "list", items |-> xs]
IdArguments ==
    Scalars \cup {ListOf(xs) : xs \in UNION {[1..n -> Scalars] : n \in 0..MaxIdList}}

\* pyinaturalist.request_params.is_int and is_int_list
is_int(v) == v.type = "int"
is_int_list(v) ==
    v.type = "list" /\ \A i \in 1..Len(v.items) : is_int(v.items[i])

\* node_api.py 244 and 347
ValidIdsUnchecked(v) == TRUE
ValidIds(v) == is_int(v) \/ is_int_list(v)

\* node_api.py 246 and 349: the resource of the endpoint
ResourceOf(o) == IF o = "get_places_by_id" THEN "places" ELSE "taxa"

\* node_api.py 244-252 (get_places_by_id) and 347-351 (get_taxa_by_id)
GetById ==
    /\ op \in {"get_places_by_id", "get_taxa_by_id"}
    /\ pc = "fetch"
    /\ IF ~ValidIds(args.id)
       THEN /\ pc' = "failed"
            /\ error' = "ValueError"
            /\ UNCHANGED <<sent, responses, returned>>
       ELSE /\ sent' = Append(sent, [method |-> "GET", endpoint |-> ResourceOf(op),
                                     resources |-> args.id,
                                     user_agent |-> args.user_agent])
            /\ \/ /\ pc' = "failed"
                  /\ error' = "ConnectionError"
                  /\ UNCHANGED <<responses, returned>>
               \/ \E st \in StatusCodes :
                  /\ responses' = Append(responses, [status_code |-> st])
                  /\ error' = raise_for_status(st)
                  /\ pc' = IF raise_for_status(st) = NoError
                           THEN "done" ELSE "failed"
                  /\ returned' = IF raise_for_status(st) = NoError
                                 THEN <<[endpoint |-> ResourceOf(op),
                                         resources |-> args.id]>>
                                 ELSE returned
    /\ CallFrame

\* C19: get_places_by_id and get_taxa_by_id raise ValueError and send no
\* request when the argument is neither an integer nor a list of integers,
\* and send exactly one request when it is.
C19_ValidateBeforeRequest ==
    op \in {"get_places_by_id", "get_taxa_by_id"} =>
        LET v == args.id
            valid == \/ v.type = "int"
                     \/ /\ v.type = "list"
                        /\ \A i \in 1..Len(v.items) : v.items[i].type = "int"
        IN  /\ ~valid => /\ sent = <<>>
                         /\ pc # "fetch" => pc = "failed" /\ error = "ValueError"
            /\ valid => /\ Len(sent) <= 1
                        /\ pc # "fetch" => Len(sent) = 1 /\ error # "ValueError"
                        /\ \A i \in 1..Len(sent) : sent[i].resources = v

\* C19 witness: get_taxa_by_id with a list holding a string.
C19_Witness ==
    /\ op = "get_taxa_by_id"
    /\ args.id = ListOf(<<Scalar("int"), Scalar("str")>>)
    /\ pc = "failed" /\ error = "ValueError"
    /\ sent = <<>>

\* ------------------------------------------------------------ dry run
\* pyinaturalist.api_requests.request, as test_api_requests.py 47-68
\* exercises it: args.constant is DRY_RUN_ENABLED of the module, args.envar
\* what getenv gives for the environment variable.
MOCK_RESPONSE == [mock |-> TRUE, status_code |-> 200]

is_dry_run_enabled_constant(a) == a.constant
is_dry_run_enabled(a) == a.constant \/ a.envar = "True"

\* request(method, url)
request ==
    /\ op = "request"
    /\ pc = "fetch"
    /\ IF is_dry_run_enabled(args)
       THEN /\ returned' = <<MOCK_RESPONSE>>
            /\ pc' = "done"
            /\ UNCHANGED <<sent, responses, error>>
       ELSE /\ sent' = Append(sent, [method |-> args.method, url |-> "http://url"])
            /\ \/ /\ pc' = "failed"
                  /\ error' = "ConnectionError"
                  /\ UNCHANGED <<responses, returned>>
               \/ \E st \in StatusCodes :
                  /\ responses' = Append(responses, [mock |-> FALSE, status_code |-> st])
                  /\ returned' = <<[mock |-> FALSE, status_code |-> st]>>
                  /\ pc' = "done"
                  /\ UNCHANGED error
    /\ CallFrame

\* C15: with dry-run mode enabled by the constant or by the environment
\* variable, request() returns the mock response and sends nothing; with
\* dry-run disabled it sends the request and returns the real response.
C15_DryRunSendsNothing ==
    op = "request" =>
        /\ (args.constant \/ args.envar = "True") =>
              /\ sent = <<>> /\ responses = <<>>
              /\ pc # "fetch" => pc = "done" /\ returned = <<MOCK_RESPONSE>>
        /\ (~args.constant /\ args.envar # "True") =>
              /\ pc # "fetch" => Len(sent) = 1
              /\ pc = "done" => returned = <<responses[1]>> /\ ~returned[1].mock

\* C15 witness: dry run enabled by the environment variable alone.
C15_Witness ==
    /\ op = "request"
    /\ ~args.constant /\ args.envar = "True"
    /\ pc = "done" /\ returned = <<MOCK_RESPONSE>> /\ sent = <<>>

\* ------------------------------------------------------------ converters
\* pyinaturalist.converters: a field value by its Python type.  A string has
\* its text; a datetime the instant in `text` and its UTC offset; a float
\* pair the two numbers in `pair` (in millionths of a degree).
None == [type |-> "none", text |-> "", offset |-> "none", pair |-> <<>>]
Str(t) == [type |-> "str", text |-> t, offset |-> "none", pair |-> <<>>]
Datetime(t, o) == [type |-> "datetime", text |-> t, offset |-> o, pair |-> <<>>]
Floats(p) == [type |-> "floats", text |-> "", offset |-> "none", pair |-> p]

\* The ISO-8601 strings the server sends, with and without UTC offset.
IsoTexts == {"2018-09-05T14:06:00+01:00", "2018-09-05T14:06:00"}
IsoInstant(t) == "2018-09-05T14:06:00"
IsoOffset(t) == IF t = "2018-09-05T14:06:00+01:00" THEN "+01:00" ELSE "none"

\* The "lat,lng" strings the server sends.
PairTexts == {"50.646894,4.360086"}
ParsePair(t) == <<50646894, 4360086>>

\* Timestamp conversion: an ISO-8601 string becomes a datetime, every other
\* value is left as it is.
ConvertTimestampStrict(v) ==
    IF v.type = "str" /\ v.text \in IsoTexts
    THEN Datetime(IsoInstant(v.text), IsoOffset(v.text))
    ELSE None
ConvertTimestamp(v) ==
    IF v.type = "str" /\ v.text \in IsoTexts
    THEN Datetime(IsoInstant(v.text), IsoOffset(v.text))
    ELSE v

\* Coordinate conversion: a "lat,lng" string becomes a float pair, every
\* other value is left as it is.
ConvertCoordinates(v) ==
    IF v.type = "str" /\ v.text \in PairTexts
    THEN Floats(ParsePair(v.text))
    ELSE v

\* convert_observation_timestamps(item)
convert_observation_timestamps(item) ==
    [item EXCEPT !.created_at = ConvertTimestamp(@)]
\* convert_all_timestamps(results)
convert_all_timestamps(rs) ==
    [i \in 1..Len(rs) |-> convert_observation_timestamps(rs[i])]
\* convert_all_coordinates(results)
convert_all_coordinates(rs) ==
    [i \in 1..Len(rs) |-> [rs[i] EXCEPT !.location = ConvertCoordinates(@)]]

\* What the JSON body of the server holds in the two fields of an item.
JsonTimestamps == {Str(t) : t \in IsoTexts} \cup {Str("abc"), None}
JsonLocations == {Str(t) : t \in PairTexts} \cup
                 {Str("abc"), None, Floats(<<50646894, 4360086>>)}
RawItems(i) == {[id |-> i, created_at |-> t, location |-> l] :
                    t \in JsonTimestamps, l \in JsonLocations}

\* v1/observations.py 149-155: get_observations converts the coordinates,
\* then the timestamps, of the results
V1Results(raws) == convert_all_timestamps(convert_all_coordinates(raws))

\* v1/observations.py 53-56 with the get_observations call of line 53
V1GetObservation ==
    /\ op = "v1_get_observation"
    /\ pc = "fetch"
    /\ sent' = Append(sent, [method |-> "GET", endpoint |-> "observations",
                             id |-> observation_id])
    /\ \/ /\ pc' = "failed"
          /\ error' = "ConnectionError"
          /\ UNCHANGED <<responses, returned>>
       \/ \E raws \in {<<>>} \cup {<<r>> : r \in RawItems(observation_id)} :
          /\ responses' = Append(responses, [status_code |-> 200, results |-> raws])
          /\ IF V1Results(raws) # <<>>
             THEN /\ returned' = <<convert_observation_timestamps(V1Results(raws)[1])>>
                  /\ pc' = "done"
                  /\ UNCHANGED error
             ELSE /\ pc' = "failed"
                  /\ error' = "ObservationNotFound"
                  /\ UNCHANGED returned
    /\ CallFrame

\* One conversion of each kind applied to an item.
Normalize(item) ==
    [item EXCEPT !.created_at = ConvertTimestamp(@),
                 !.location = ConvertCoordinates(@)]

\* C13: normalizing a normalized item gives the same item, and the item v1
\* get_observation returns, whose timestamps were converted twice, is the
\* item one conversion gives.
C13_NormalizeIdempotent ==
    (op = "v1_get_observation" /\ pc = "done") =>
        LET raw == responses[1].results[1] IN
        /\ returned = <<Normalize(raw)>>
        /\ Normalize(Normalize(raw)) = Normalize(raw)
        /\ Normalize(returned[1]) = returned[1]

\* C13 witness: an item whose timestamp and coordinates were both strings
\* comes back with a datetime and a float pair.
C13_Witness ==
    /\ op = "v1_get_observation" /\ pc = "done"
    /\ responses[1].results[1].created_at = Str("2018-09-05T14:06:00+01:00")
    /\ responses[1].results[1].location = Str("50.646894,4.360086")
    /\ returned[1].created_at = Datetime("2018-09-05T14:06:00", "+01:00")
    /\ returned[1].location = Floats(<<50646894, 4360086>>)

\* ------------------------------------------------------------ GeoJSON
\* Longest observation list given to the feature-collection assembly.
MaxItems == 3

\* What an item holds in its coordinate field when it reaches the assembly:
\* a float pair, nothing, or a string that is no coordinate pair.
ItemLocations == {Floats(<<50646894, 4360086>>), None, Str("abc")}

\* The lists get_all_observations may return: the item at position i has id i.
ObservationLists ==
    UNION {{[i \in 1..n |-> [id |-> i, created_at |-> None, location |-> loc[i]]] :
                loc \in [1..n -> ItemLocations]} : n \in 0..MaxItems}

\* An item with a usable coordinate pair.
HasCoordinates(item) == item.location.type = "floats"

\* as_geojson_feature(item, properties): GeoJSON puts the longitude first.
as_geojson_feature(item) ==
    [type |-> "Feature",
     geometry |-> [type |-> "Point",
                   coordinates |-> <<item.location.pair[2], item.location.pair[1]>>],
     properties |-> [id |-> item.id]]

\* as_geojson_feature_collection(items, properties): a feature for each item
\* with coordinates, the others skipped.
as_geojson_feature_collection_all(items) ==
    [type |-> "FeatureCollection",
     features |-> [i \in 1..Len(items) |->
                      [type |-> "Feature",
                       geometry |-> [type |-> "Point",
                                     coordinates |-> items[i].location.pair],
                       properties |-> [id |-> items[i].id]]]]
as_geojson_feature_collection(items) ==
    [type |-> "FeatureCollection",
     features |-> LET usable == SelectSeq(items, HasCoordinates)
                  IN  [i \in 1..Len(usable) |-> as_geojson_feature(usable[i])]]

\* node_api.py 205-210: get_all_observations with mappable set, then the
\* feature collection of what it returned.  The page requests of
\* get_all_observations are the subject of FetchPage and Throttle; here the
\* call is one step that returns a list.
get_geojson_observations ==
    /\ op = "get_geojson_observations"
    /\ pc = "fetch"
    /\ sent' = Append(sent, [method |-> "GET", endpoint |-> "observations",
                             mappable |-> TRUE])
    /\ \/ /\ pc' = "failed"
          /\ error' = "ConnectionError"
          /\ UNCHANGED <<responses, returned>>
       \/ \E observations \in ObservationLists :
          /\ responses' = Append(responses, [status_code |-> 200,
                                             results |-> observations])
          /\ returned' = <<as_geojson_feature_collection(observations)>>
          /\ pc' = "done"
          /\ UNCHANGED error
    /\ CallFrame

\* C14: the feature collection holds one feature for each item that has a
\* coordinate pair, in the order of the items, and an item without
\* coordinates is left out without an error.
C14_FeaturePerLocatedItem ==
    (op = "get_geojson_observations" /\ responses # <<>>) =>
        LET items   == responses[1].results
            located == {i \in 1..Len(items) : items[i].location.type = "floats"}
        IN  /\ pc = "done" /\ error = NoError
            /\ returned[1].type = "FeatureCollection"
            /\ Len(returned[1].features) = Cardinality(located)
            /\ \A i \in located :
                  \E j \in 1..Len(returned[1].features) :
                      returned[1].features[j].properties.id = items[i].id
            /\ \A j, k \in 1..Len(returned[1].features) :
                  j < k => returned[1].features[j].properties.id
                               < returned[1].features[k].properties.id

\* C14 witness: the first of three items has no coordinates, the other two
\* have: two features.
C14_Witness ==
    /\ op = "get_geojson_observations" /\ pc = "done"
    /\ Len(responses[1].results) = 3
    /\ responses[1].results[1].location = None
    /\ responses[1].results[2].location.type = "floats"
    /\ responses[1].results[3].location.type = "floats"
    /\ Len(returned[1].features) = 2

\* ------------------------------------------------------------ the calls
CallOps == {"delete_observation", "upload", "get_places_by_id",
            "get_taxa_by_id", "request", "v1_get_observation",
            "get_geojson_observations"}

\* The arguments of a call of function o (besides observation_id).
CallArguments(o) ==
    IF o = "upload"
    THEN {[photos |-> FileList("photo", p), sounds |-> FileList("sound", s)] :
              p \in 0..MaxFiles, s \in 0..MaxFiles}
    ELSE IF o \in {"get_places_by_id", "get_taxa_by_id"}
    THEN {[id |-> v, user_agent |-> ua] :
              v \in IdArguments, ua \in {"None", "my-app/1.0"}}
    ELSE IF o = "request"
    THEN {[constant |-> c, envar |-> e, method |-> "GET"] :
              c \in BOOLEAN, e \in {"unset", "True"}}
    ELSE {NoArgs}

InitCalls ==
    /\ op \in CallOps
    /\ observation_id \in (IF op \in {"delete_observation", "upload",
                                      "v1_get_observation"}
                           THEN Ids ELSE {NoParam})
    /\ args \in CallArguments(op)
    /\ per_page = 1
    /\ db = {}
    /\ pc = "fetch"
    /\ results = <<>>
    /\ id_above = 0
    /\ sent = <<>>
    /\ responses = <<>>
    /\ trace = <<>>
    /\ error = NoError
    /\ returned = <<>>
    /\ consumed = 0
    /\ honest = TRUE
    /\ inserted = {}
    /\ late = {}
    /\ other = NoOther

NextCalls ==
    \/ delete_observation
    \/ UploadFile
    \/ UploadFinish
    \/ GetById
    \/ request
    \/ V1GetObservation
    \/ get_geojson_observations

SpecCalls == InitCalls /\ [][NextCalls]_vars

====
